---- MODULE Spec2Model ----
(***************************************************************************)
(* A model of ib_insync/order.py: the Trade aggregate and its derived      *)
(* queries, the OrderCondition variant table, and the construction of      *)
(* Order and its four typed subclasses.                                    *)
(***************************************************************************)
EXTENDS Integers, Sequences, FiniteSets, TLC

VARIABLES
    contract,       \* Trade.contract      (its secType)
    order,          \* Trade.order         (its totalQuantity)
    orderStatus,    \* Trade.orderStatus   (its status)
    fills,          \* Trade.fills, in arrival order
    conds,          \* a condition list built from createClass results
    called,         \* <<d>> once createClass(d) was called, <<>> before
    result,         \* what the last createClass call returned
    raised,         \* the exception the last call raised, or "none"
    orders,         \* the Order objects constructed so far; index = identity
    lists,          \* the list objects allocated so far;    index = identity
    tiers,          \* the SoftDollarTier objects allocated; index = identity
    outcome         \* how the last constructor call ended

tradeVars == <<contract, order, orderStatus, fills>>
condVars  == <<conds, called, result, raised>>
orderVars == <<orders, lists, tiers, outcome>>
vars      == <<contract, order, orderStatus, fills, conds, called, result, raised,
               orders, lists, tiers, outcome>>

\* outcome before any constructor was called
NoCall == [raised |-> "none", cls |-> "none", kwargs |-> <<>>, before |-> 0]

(***************************************************************************)
(* Bounds of the model.                                                    *)
(***************************************************************************)
MaxFills == 3
MaxConds == 2
MaxOrders == 2

(***************************************************************************)
(* OrderStatus: the status vocabulary and its two classification sets.     *)
(***************************************************************************)
StatusVocabulary ==
    {"PendingSubmit", "PendingCancel", "PreSubmitted", "Submitted",
     "ApiPending", "ApiCancelled", "Cancelled", "Filled", "Inactive"}

DoneStates == {"Filled", "Cancelled", "ApiCancelled"}

ActiveStatesWithPendingCancel ==
    {"PendingSubmit", "PendingCancel", "ApiPending", "PreSubmitted", "Submitted"}

ActiveStates == {"PendingSubmit", "ApiPending", "PreSubmitted", "Submitted"}

\* OrderStatus.defaults: status=''
DefaultStatus == ""

\* The status strings an update may write: the vocabulary, the default, and
\* a string outside the vocabulary (the field is a plain str).
StatusValues == StatusVocabulary \cup {DefaultStatus, "Unknown"}

(***************************************************************************)
(* Trade: the derived queries.                                             *)
(***************************************************************************)
SecTypes == {"STK", "BAG"}
Shares == {-1, 1, 2}
Quantities == {2, 3}

Fill(secType, shares) ==
    [contract |-> [secType |-> secType], execution |-> [shares |-> shares]]

\* sum(f.execution.shares for f in fs), left to right from 0
RECURSIVE SumShares(_)
SumShares(fs) ==
    IF fs = <<>> THEN 0
    ELSE SumShares(SubSeq(fs, 1, Len(fs) - 1)) + fs[Len(fs)].execution.shares

\* [f for f in fs if f.contract.secType == 'BAG']
RECURSIVE BagFills(_)
BagFills(fs) ==
    IF fs = <<>> THEN <<>>
    ELSE LET rest == BagFills(SubSeq(fs, 1, Len(fs) - 1))
             f == fs[Len(fs)]
         IN IF f.contract.secType = "BAG" THEN Append(rest, f) ELSE rest

isActiveIfNotDone == orderStatus.status \notin DoneStates

isActive == orderStatus.status \in ActiveStates

isDone == orderStatus.status \in DoneStates

filledUnfiltered == SumShares(fills)

filled ==
    LET fs == IF contract.secType = "BAG" THEN BagFills(fills) ELSE fills
    IN SumShares(fs)

remainingClamped ==
    IF order.totalQuantity - filled < 0 THEN 0 ELSE order.totalQuantity - filled

remaining == order.totalQuantity - filled

(***************************************************************************)
(* Trade: the updates the message-processing path applies to it.           *)
(***************************************************************************)
\* Trade(contract, order, OrderStatus(), [], []); nothing else is in use.
InitTrade ==
    /\ contract \in [secType : SecTypes]
    /\ order \in [totalQuantity : Quantities]
    /\ orderStatus = [status |-> DefaultStatus]
    /\ fills = <<>>
    /\ conds = <<>> /\ called = <<>> /\ result = "none" /\ raised = "none"
    /\ orders = <<>> /\ lists = <<>> /\ tiers = <<>> /\ outcome = NoCall

\* A done status is terminal: the message path applies no further status
\* update, fill or modification to a trade whose status is a done state.
TradeIsLive == orderStatus.status \notin DoneStates

\* trade.orderStatus.status = s   (in place)
UpdateStatus(s) ==
    /\ TradeIsLive
    /\ orderStatus' = [orderStatus EXCEPT !.status = s]
    /\ UNCHANGED <<contract, order, fills, condVars, orderVars>>

\* trade.fills.append(fill)
AppendFill(secType, shares) ==
    /\ TradeIsLive
    /\ Len(fills) < MaxFills
    /\ fills' = Append(fills, Fill(secType, shares))
    /\ UNCHANGED <<contract, order, orderStatus, condVars, orderVars>>

\* trade.order.totalQuantity = q   (an order modification)
ModifyOrder(q) ==
    /\ TradeIsLive
    /\ q /= order.totalQuantity
    /\ order' = [order EXCEPT !.totalQuantity = q]
    /\ UNCHANGED <<contract, orderStatus, fills, condVars, orderVars>>

NextTrade ==
    \/ \E s \in StatusValues : UpdateStatus(s)
    \/ \E t \in SecTypes, n \in Shares : AppendFill(t, n)
    \/ \E q \in Quantities : ModifyOrder(q)

SpecTrade == InitTrade /\ [][NextTrade]_vars

(***************************************************************************)
(* Trade: properties.                                                      *)
(***************************************************************************)
RECURSIVE SumAt(_, _)
SumAt(fs, I) ==
    IF I = {} THEN 0
    ELSE LET i == CHOOSE j \in I : TRUE
         IN fs[i].execution.shares + SumAt(fs, I \ {i})

\* The fills the aggregation rule counts: every fill of a non-BAG trade, and
\* only the fills whose own contract is BAG-typed of a BAG trade.
Counted ==
    {i \in 1..Len(fills) :
        contract.secType = "BAG" => fills[i].contract.secType = "BAG"}

\* C1: filled() is the sum of execution.shares over all fills of a non-BAG
\* trade, and over only the BAG-typed fills of a BAG trade; negative shares
\* are summed as they are and leg fills never count for a BAG trade.
C1_FilledIsFilteredSum ==
    /\ filled = SumAt(fills, Counted)
    /\ contract.secType /= "BAG" => filled = SumAt(fills, 1..Len(fills))
    /\ contract.secType = "BAG" =>
         filled = SumAt(fills, {i \in 1..Len(fills) :
                                   fills[i].contract.secType = "BAG"})

C1_Witness ==
    /\ contract.secType = "BAG"
    /\ \E i, j, k \in 1..Len(fills) :
         /\ fills[i].contract.secType = "BAG" /\ fills[i].execution.shares = 2
         /\ fills[j].contract.secType = "BAG" /\ fills[j].execution.shares = -1
         /\ fills[k].contract.secType = "STK" /\ fills[k].execution.shares = 2
    /\ filled = 1

\* C2: remaining() is order.totalQuantity minus filled(), never clamped:
\* when the fills exceed totalQuantity it is the negative difference.
C2_RemainingNotClamped ==
    /\ remaining = order.totalQuantity - SumAt(fills, Counted)
    /\ remaining + SumAt(fills, Counted) = order.totalQuantity
    /\ SumAt(fills, Counted) > order.totalQuantity => remaining < 0

C2_Witness ==
    /\ SumAt(fills, Counted) = order.totalQuantity + 2
    /\ remaining = -2

\* C3: isActive() holds exactly for the statuses PendingSubmit, ApiPending,
\* PreSubmitted, Submitted and isDone() exactly for Filled, Cancelled,
\* ApiCancelled, whatever the earlier statuses and the fills were.
C3_ClassificationFollowsStatus ==
    /\ isActive <=> orderStatus.status \in
                      {"PendingSubmit", "ApiPending", "PreSubmitted", "Submitted"}
    /\ isDone <=> orderStatus.status \in {"Filled", "Cancelled", "ApiCancelled"}

C3_Witness ==
    /\ Len(fills) >= 2
    /\ orderStatus.status = "Submitted"
    /\ isActive /\ ~isDone

\* C4: ActiveStates and DoneStates are disjoint subsets of the nine-value
\* vocabulary, isActive() and isDone() are never both true, and both are
\* false for PendingCancel, Inactive and the default empty status.
C4_ActiveAndDoneExclusive ==
    /\ Cardinality(StatusVocabulary) = 9
    /\ ActiveStates \subseteq StatusVocabulary
    /\ DoneStates \subseteq StatusVocabulary
    /\ ActiveStates \cap DoneStates = {}
    /\ ~(isActive /\ isDone)
    /\ orderStatus.status \in {"PendingCancel", "Inactive", ""} =>
         ~isActive /\ ~isDone

C4_Witness ==
    /\ orderStatus.status = "PendingCancel"
    /\ Len(fills) >= 1
    /\ ~isActive /\ ~isDone

(***************************************************************************)
(* OrderCondition: the variant family and the discriminant lookup.         *)
(***************************************************************************)
PriceCondition ==
    [condType |-> 1, conjunction |-> "a", isMore |-> TRUE, price |-> 0,
     conId |-> 0, exch |-> "", triggerMethod |-> 0]

TimeCondition ==
    [condType |-> 3, conjunction |-> "a", isMore |-> TRUE, time |-> ""]

MarginCondition ==
    [condType |-> 4, conjunction |-> "a", isMore |-> TRUE, percent |-> 0]

ExecutionCondition ==
    [condType |-> 5, conjunction |-> "a", secType |-> "", exch |-> "",
     symbol |-> ""]

VolumeCondition ==
    [condType |-> 6, conjunction |-> "a", isMore |-> TRUE, volume |-> 0,
     conId |-> 0, exch |-> ""]

PercentChangeCondition ==
    [condType |-> 7, conjunction |-> "a", isMore |-> TRUE, changePercent |-> 0,
     conId |-> 0, exch |-> ""]

\* cls.defaults of the class named cls
ClassDefaults(cls) ==
    CASE cls = "PriceCondition" -> PriceCondition
      [] cls = "TimeCondition" -> TimeCondition
      [] cls = "MarginCondition" -> MarginCondition
      [] cls = "ExecutionCondition" -> ExecutionCondition
      [] cls = "VolumeCondition" -> VolumeCondition
      [] cls = "PercentChangeCondition" -> PercentChangeCondition

\* the dict d of createClass
ClassTable ==
    (1 :> "PriceCondition") @@ (3 :> "TimeCondition") @@
    (4 :> "MarginCondition") @@ (5 :> "ExecutionCondition") @@
    (6 :> "VolumeCondition") @@ (7 :> "PercentChangeCondition")

\* d.get(condType, PriceCondition) in place of d[condType]
createClassOrDefault(condType) ==
    IF condType \in DOMAIN ClassTable
    THEN [raised |-> "none", value |-> ClassTable[condType]]
    ELSE [raised |-> "none", value |-> "PriceCondition"]

\* return d[condType]: the class, or the KeyError of the failed lookup
createClass(condType) ==
    IF condType \in DOMAIN ClassTable
    THEN [raised |-> "none", value |-> ClassTable[condType]]
    ELSE [raised |-> "KeyError", value |-> "none"]

\* cls(): an instance whose fields are the class's declared defaults
NewCondition(cls) == [cls |-> cls, fields |-> ClassDefaults(cls)]

\* self.conjunction = c; return self
SetConjunction(cond, c) == [cond EXCEPT !.fields.conjunction = c]

Discriminants == 0..8

InitCondition ==
    /\ conds = <<>> /\ called = <<>> /\ result = "none" /\ raised = "none"
    /\ contract = [secType |-> "STK"]
    /\ order = [totalQuantity |-> 0]
    /\ orderStatus = [status |-> DefaultStatus]
    /\ fills = <<>>
    /\ orders = <<>> /\ lists = <<>> /\ tiers = <<>> /\ outcome = NoCall

\* cls = OrderCondition.createClass(d), as a deserializer calls it
CallCreateClass(d) ==
    /\ called' = <<d>>
    /\ result' = createClass(d).value
    /\ raised' = createClass(d).raised
    /\ UNCHANGED <<conds, tradeVars, orderVars>>

\* conditions.append(cls()) with the class the last call returned
Instantiate ==
    /\ result /= "none"
    /\ Len(conds) < MaxConds
    /\ conds' = Append(conds, NewCondition(result))
    /\ UNCHANGED <<called, result, raised, tradeVars, orderVars>>

\* conds[i].And()
And(i) ==
    /\ conds' = [conds EXCEPT ![i] = SetConjunction(conds[i], "a")]
    /\ UNCHANGED <<called, result, raised, tradeVars, orderVars>>

\* conds[i].Or()
Or(i) ==
    /\ conds' = [conds EXCEPT ![i] = SetConjunction(conds[i], "o")]
    /\ UNCHANGED <<called, result, raised, tradeVars, orderVars>>

NextCondition ==
    \/ \E d \in Discriminants : CallCreateClass(d)
    \/ Instantiate
    \/ \E i \in 1..Len(conds) : And(i)
    \/ \E i \in 1..Len(conds) : Or(i)

SpecCondition == InitCondition /\ [][NextCondition]_vars

\* C5: createClass(d) returns, for d in {1,3,4,5,6,7}, PriceCondition,
\* TimeCondition, MarginCondition, ExecutionCondition, VolumeCondition,
\* PercentChangeCondition, the variant whose declared default condType is d;
\* for any other d (2 included) it raises and returns no variant at all.
C5_CreateClassLookup ==
    called /= <<>> =>
      LET d == called[1]
          expected == CASE d = 1 -> "PriceCondition"
                        [] d = 3 -> "TimeCondition"
                        [] d = 4 -> "MarginCondition"
                        [] d = 5 -> "ExecutionCondition"
                        [] d = 6 -> "VolumeCondition"
                        [] d = 7 -> "PercentChangeCondition"
                        [] OTHER -> "none"
      IN /\ d \in {1, 3, 4, 5, 6, 7} =>
              /\ raised = "none"
              /\ result = expected
              /\ ClassDefaults(result).condType = d
         /\ d \notin {1, 3, 4, 5, 6, 7} =>
              /\ raised /= "none"
              /\ result = "none"
              /\ ~ ENABLED Instantiate

C5_Witness ==
    /\ called = <<2>>
    /\ raised = "KeyError"
    /\ result = "none"
    /\ Len(conds) >= 1
    /\ conds[1].cls = "PercentChangeCondition"

(***************************************************************************)
(* Order: declared defaults and construction.  Of the field table the     *)
(* model keeps the fields the typed constructors map, two broker-assigned  *)
(* identity fields, one plain field (tif) and the two fields that          *)
(* Order.__init__ never leaves None.  An object reference is a record      *)
(* naming the kind of object and its identity (its index in the heap).     *)
(***************************************************************************)
UNSET_DOUBLE == 999999

NoneValue == [kind |-> "None"]
ListRef(i) == [kind |-> "list", id |-> i]
TierRef(i) == [kind |-> "tier", id |-> i]

OrderDefaults ==
    [orderId |-> 0, permId |-> 0, action |-> "", totalQuantity |-> 0,
     orderType |-> "", lmtPrice |-> UNSET_DOUBLE, auxPrice |-> UNSET_DOUBLE,
     tif |-> "", conditions |-> NoneValue, softDollarTier |-> NoneValue]

\* SoftDollarTier(): a default-valued instance
SoftDollarTierDefaults == [name |-> "", val |-> "", displayName |-> ""]

NoKeywords == <<>>

\* Object.__init__ with keyword arguments naming declared fields: a field
\* takes the keyword's value, else the declared default.
ObjectInit(defaults, kwargs) ==
    [k \in DOMAIN defaults |->
        IF k \in DOMAIN kwargs THEN kwargs[k] ELSE defaults[k]]

\* bool(v) of a conditions value: None and the empty list are false
ListTruthy(v, ls) == v.kind = "list" /\ ls[v.id] /= <<>>

\* bool(v) of a softDollarTier value: None is false; an instance with a
\* non-empty field is true; the truth value of a default-valued instance is
\* decided outside this file and is the input emptyTierIsTrue.
TierTruthy(v, ts, emptyTierIsTrue) ==
    /\ v.kind = "tier"
    /\ (ts[v.id] /= SoftDollarTierDefaults \/ emptyTierIsTrue)

Returned(f, ls, ts) == [raised |-> "none", f |-> f, lists |-> ls, tiers |-> ts]
Raised(e, ls, ts) == [raised |-> e, f |-> OrderDefaults, lists |-> ls, tiers |-> ts]

\* Order.__init__ without the softDollarTier fix-up
OrderInitTierLeftNone(kwargs, ls, ts, emptyTierIsTrue) ==
    LET f0 == ObjectInit(OrderDefaults, kwargs)
        needList == ~ListTruthy(f0.conditions, ls)
        ls1 == IF needList THEN Append(ls, <<>>) ELSE ls
        f1 == IF needList THEN [f0 EXCEPT !.conditions = ListRef(Len(ls1))]
                          ELSE f0
    IN Returned(f1, ls1, ts)

\* Order.__init__(self, **kwargs)
OrderInit(kwargs, ls, ts, emptyTierIsTrue) ==
    LET f0 == ObjectInit(OrderDefaults, kwargs)
        needList == ~ListTruthy(f0.conditions, ls)
        ls1 == IF needList THEN Append(ls, <<>>) ELSE ls
        f1 == IF needList THEN [f0 EXCEPT !.conditions = ListRef(Len(ls1))]
                          ELSE f0
        needTier == ~TierTruthy(f1.softDollarTier, ts, emptyTierIsTrue)
        ts1 == IF needTier THEN Append(ts, SoftDollarTierDefaults) ELSE ts
        f2 == IF needTier THEN [f1 EXCEPT !.softDollarTier = TierRef(Len(ts1))]
                          ELSE f1
    IN Returned(f2, ls1, ts1)

\* the forwarding call with the overrides taking precedence:
\* Order.__init__(self, **{**explicit, **kwargs})
ForwardOverridesWin(explicit, kwargs, ls, ts, emptyTierIsTrue) ==
    OrderInit(kwargs @@ explicit, ls, ts, emptyTierIsTrue)

\* Order.__init__(self, k1=v1, ..., **kwargs): a keyword given twice is a
\* TypeError of the call
Forward(explicit, kwargs, ls, ts, emptyTierIsTrue) ==
    IF DOMAIN explicit \cap DOMAIN kwargs /= {}
    THEN Raised("TypeError", ls, ts)
    ELSE OrderInit(explicit @@ kwargs, ls, ts, emptyTierIsTrue)

\* LimitOrder(action, totalQuantity, lmtPrice, **kwargs)
LimitOrderInit(args, kwargs, ls, ts, emptyTierIsTrue) ==
    IF DOMAIN kwargs \cap {"action", "totalQuantity", "lmtPrice"} /= {}
    THEN Raised("TypeError", ls, ts)
    ELSE Forward([orderType |-> "LMT", action |-> args.action,
                  totalQuantity |-> args.totalQuantity,
                  lmtPrice |-> args.lmtPrice],
                 kwargs, ls, ts, emptyTierIsTrue)

\* MarketOrder(action, totalQuantity, **kwargs)
MarketOrderInit(args, kwargs, ls, ts, emptyTierIsTrue) ==
    IF DOMAIN kwargs \cap {"action", "totalQuantity"} /= {}
    THEN Raised("TypeError", ls, ts)
    ELSE Forward([orderType |-> "MKT", action |-> args.action,
                  totalQuantity |-> args.totalQuantity],
                 kwargs, ls, ts, emptyTierIsTrue)

\* StopOrder(action, totalQuantity, stopPrice, **kwargs)
StopOrderInit(args, kwargs, ls, ts, emptyTierIsTrue) ==
    IF DOMAIN kwargs \cap {"action", "totalQuantity", "stopPrice"} /= {}
    THEN Raised("TypeError", ls, ts)
    ELSE Forward([orderType |-> "STP", action |-> args.action,
                  totalQuantity |-> args.totalQuantity,
                  auxPrice |-> args.stopPrice],
                 kwargs, ls, ts, emptyTierIsTrue)

\* StopLimitOrder with the two prices exchanged
StopLimitOrderInitSwapped(args, kwargs, ls, ts, emptyTierIsTrue) ==
    IF DOMAIN kwargs \cap {"action", "totalQuantity", "lmtPrice", "stopPrice"}
         /= {}
    THEN Raised("TypeError", ls, ts)
    ELSE Forward([orderType |-> "STP LMT", action |-> args.action,
                  totalQuantity |-> args.totalQuantity,
                  lmtPrice |-> args.stopPrice, auxPrice |-> args.lmtPrice],
                 kwargs, ls, ts, emptyTierIsTrue)

\* StopLimitOrder(action, totalQuantity, lmtPrice, stopPrice, **kwargs)
StopLimitOrderInit(args, kwargs, ls, ts, emptyTierIsTrue) ==
    IF DOMAIN kwargs \cap {"action", "totalQuantity", "lmtPrice", "stopPrice"}
         /= {}
    THEN Raised("TypeError", ls, ts)
    ELSE Forward([orderType |-> "STP LMT", action |-> args.action,
                  totalQuantity |-> args.totalQuantity,
                  lmtPrice |-> args.lmtPrice, auxPrice |-> args.stopPrice],
                 kwargs, ls, ts, emptyTierIsTrue)

\* cls(*args, **kwargs)
New(cls, args, kwargs, ls, ts, emptyTierIsTrue) ==
    CASE cls = "Order" -> OrderInit(kwargs, ls, ts, emptyTierIsTrue)
      [] cls = "LimitOrder" ->
            LimitOrderInit(args, kwargs, ls, ts, emptyTierIsTrue)
      [] cls = "MarketOrder" ->
            MarketOrderInit(args, kwargs, ls, ts, emptyTierIsTrue)
      [] cls = "StopOrder" ->
            StopOrderInit(args, kwargs, ls, ts, emptyTierIsTrue)
      [] cls = "StopLimitOrder" ->
            StopLimitOrderInit(args, kwargs, ls, ts, emptyTierIsTrue)

(***************************************************************************)
(* Order: equality and hashing.                                            *)
(***************************************************************************)
\* the field values of order i, containers and nested records by content
FieldValues(i) ==
    [k \in DOMAIN OrderDefaults |->
        IF k = "conditions" THEN lists[orders[i].f.conditions.id]
        ELSE IF k = "softDollarTier" THEN tiers[orders[i].f.softDollarTier.id]
        ELSE orders[i].f[k]]

\* the generic record equality: all field values equal
OrderEqByValue(i, j) == FieldValues(i) = FieldValues(j)

\* Order.__eq__: self is other
OrderEq(i, j) == i = j

\* Order.__hash__: id(self)
OrderHash(i) == i

(***************************************************************************)
(* Order: the calls a client makes.                                        *)
(***************************************************************************)
OrderClasses ==
    {"Order", "LimitOrder", "MarketOrder", "StopOrder", "StopLimitOrder"}
Actions == {"BUY", "SELL"}
OrderQuantities == {100}
LimitPrices == {9}
StopPrices == {8}

\* the positional arguments each constructor takes
ArgsOf(cls) ==
    CASE cls = "Order" -> {NoKeywords}
      [] cls = "LimitOrder" ->
            [action : Actions, totalQuantity : OrderQuantities,
             lmtPrice : LimitPrices]
      [] cls = "MarketOrder" ->
            [action : Actions, totalQuantity : OrderQuantities]
      [] cls = "StopOrder" ->
            [action : Actions, totalQuantity : OrderQuantities,
             stopPrice : StopPrices]
      [] cls = "StopLimitOrder" ->
            [action : Actions, totalQuantity : OrderQuantities,
             lmtPrice : LimitPrices, stopPrice : StopPrices]

\* the plain keyword overrides a call may carry (one at most)
PlainOverrides(cls) ==
    {NoKeywords, "orderType" :> "MKT", "lmtPrice" :> 11, "auxPrice" :> 11,
     "tif" :> "GTC", "action" :> "SELL"}
    \cup (IF cls \in {"StopOrder", "StopLimitOrder"}
          THEN {"stopPrice" :> 11} ELSE {})

Absent == [how |-> "absent"]

\* how a call supplies conditions / softDollarTier: not at all, as None, as
\* an object the caller has just made, or as an object that already exists
ConditionsArgs ==
    {Absent, [how |-> "None"],
     [how |-> "new", value |-> <<>>],
     [how |-> "new", value |-> <<PriceCondition>>]}
    \cup {[how |-> "old", id |-> i] : i \in 1..Len(lists)}

TierArgs ==
    {Absent, [how |-> "None"],
     [how |-> "new", value |-> SoftDollarTierDefaults],
     [how |-> "new", value |-> [SoftDollarTierDefaults EXCEPT !.name = "Tier1"]]}
    \cup {[how |-> "old", id |-> i] : i \in 1..Len(tiers)}

Allocated(heap, arg) ==
    IF arg.how = "new" THEN Append(heap, arg.value) ELSE heap

\* conditions=<arg> as a keyword argument
ConditionsKeyword(arg, heap) ==
    CASE arg.how = "absent" -> NoKeywords
      [] arg.how = "None" -> "conditions" :> NoneValue
      [] arg.how = "new" -> "conditions" :> ListRef(Len(heap))
      [] arg.how = "old" -> "conditions" :> ListRef(arg.id)

\* softDollarTier=<arg> as a keyword argument
TierKeyword(arg, heap) ==
    CASE arg.how = "absent" -> NoKeywords
      [] arg.how = "None" -> "softDollarTier" :> NoneValue
      [] arg.how = "new" -> "softDollarTier" :> TierRef(Len(heap))
      [] arg.how = "old" -> "softDollarTier" :> TierRef(arg.id)

InitOrder ==
    /\ orders = <<>> /\ lists = <<>> /\ tiers = <<>> /\ outcome = NoCall
    /\ conds = <<>> /\ called = <<>> /\ result = "none" /\ raised = "none"
    /\ contract = [secType |-> "STK"]
    /\ order = [totalQuantity |-> 0]
    /\ orderStatus = [status |-> DefaultStatus]
    /\ fills = <<>>

\* o = cls(*args, **kwargs)
Construct(cls, args, plain, carg, targ, emptyTierIsTrue) ==
    /\ Len(orders) < MaxOrders
    /\ LET ls0 == Allocated(lists, carg)
           ts0 == Allocated(tiers, targ)
           kwargs == plain @@ ConditionsKeyword(carg, ls0)
                           @@ TierKeyword(targ, ts0)
           r == New(cls, args, kwargs, ls0, ts0, emptyTierIsTrue)
           n == Len(orders) + 1
       IN /\ ~emptyTierIsTrue =>
                /\ "softDollarTier" \in DOMAIN kwargs
                /\ kwargs.softDollarTier.kind = "tier"
                /\ ts0[kwargs.softDollarTier.id] = SoftDollarTierDefaults
          /\ outcome' = [raised |-> r.raised, cls |-> cls, kwargs |-> kwargs,
                         before |-> Len(orders)]
          /\ lists' = r.lists
          /\ tiers' = r.tiers
          /\ orders' = IF r.raised /= "none" THEN orders
                       ELSE Append(orders,
                                [cls |-> cls, args |-> args, kwargs |-> kwargs,
                                 f |-> r.f, touched |-> {},
                                 hash0 |-> OrderHash(n)])
    /\ UNCHANGED <<tradeVars, condVars>>

\* orders[i].<name> = v   (in place)
AssignField(i, name, v) ==
    /\ orders[i].f[name] /= v
    /\ orders' = [orders EXCEPT ![i].f[name] = v,
                                ![i].touched = @ \cup {name}]
    /\ UNCHANGED <<lists, tiers, outcome, tradeVars, condVars>>

\* A call carries one keyword override at most: a plain field, conditions,
\* or softDollarTier.
NextOrder ==
    \/ \E cls \in OrderClasses : \E args \in ArgsOf(cls) :
         \E plain \in PlainOverrides(cls) :
            Construct(cls, args, plain, Absent, Absent, TRUE)
    \/ \E cls \in OrderClasses : \E args \in ArgsOf(cls) :
         \E carg \in ConditionsArgs \ {Absent} :
            Construct(cls, args, NoKeywords, carg, Absent, TRUE)
    \/ \E cls \in OrderClasses : \E args \in ArgsOf(cls) :
         \E targ \in TierArgs \ {Absent}, b \in BOOLEAN :
            Construct(cls, args, NoKeywords, Absent, targ, b)
    \/ \E i \in 1..Len(orders) : AssignField(i, "permId", 7)

SpecOrder == InitOrder /\ [][NextOrder]_vars

(***************************************************************************)
(* Order: properties.                                                      *)
(***************************************************************************)
Given(o, name) == name \in DOMAIN o.kwargs

\* C6: every constructed Order (of any of the five classes, whatever was
\* passed) has conditions and softDollarTier not None; when one is not
\* supplied it is an empty list, resp. a default-valued SoftDollarTier, that
\* no other construction's default and no earlier order shares.
C6_ConditionsAndTierNeverNone ==
    \A i \in 1..Len(orders) :
      LET o == orders[i]
      IN /\ o.f.conditions /= NoneValue
         /\ o.f.conditions.kind = "list"
         /\ o.f.conditions.id \in 1..Len(lists)
         /\ o.f.softDollarTier /= NoneValue
         /\ o.f.softDollarTier.kind = "tier"
         /\ o.f.softDollarTier.id \in 1..Len(tiers)
         /\ ~Given(o, "conditions") =>
              /\ lists[o.f.conditions.id] = <<>>
              /\ \A j \in 1..Len(orders) :
                   (j < i \/ (j /= i /\ ~Given(orders[j], "conditions")))
                     => orders[j].f.conditions.id /= o.f.conditions.id
         /\ ~Given(o, "softDollarTier") =>
              /\ tiers[o.f.softDollarTier.id] =
                   [name |-> "", val |-> "", displayName |-> ""]
              /\ \A j \in 1..Len(orders) :
                   (j < i \/ (j /= i /\ ~Given(orders[j], "softDollarTier")))
                     => orders[j].f.softDollarTier.id /= o.f.softDollarTier.id

C6_Witness ==
    /\ Len(orders) = 2
    /\ orders[1].cls = "StopLimitOrder" /\ orders[1].kwargs = NoKeywords
    /\ orders[2].cls = "Order" /\ Given(orders[2], "softDollarTier")
    /\ orders[2].kwargs.softDollarTier = NoneValue
    /\ orders[2].f.softDollarTier.kind = "tier"
    /\ orders[1].f.conditions /= orders[2].f.conditions

\* what each typed constructor maps its arguments onto
MappedCorrectly(o) ==
    CASE o.cls = "LimitOrder" ->
           /\ o.f.orderType = "LMT" /\ o.f.action = o.args.action
           /\ o.f.totalQuantity = o.args.totalQuantity
           /\ o.f.lmtPrice = o.args.lmtPrice
      [] o.cls = "MarketOrder" ->
           /\ o.f.orderType = "MKT" /\ o.f.action = o.args.action
           /\ o.f.totalQuantity = o.args.totalQuantity
      [] o.cls = "StopOrder" ->
           /\ o.f.orderType = "STP" /\ o.f.action = o.args.action
           /\ o.f.totalQuantity = o.args.totalQuantity
           /\ o.f.auxPrice = o.args.stopPrice
      [] o.cls = "StopLimitOrder" ->
           /\ o.f.orderType = "STP LMT" /\ o.f.action = o.args.action
           /\ o.f.totalQuantity = o.args.totalQuantity
           /\ o.f.lmtPrice = o.args.lmtPrice
           /\ o.f.auxPrice = o.args.stopPrice
      [] OTHER -> TRUE

MappedFields(cls) ==
    CASE cls = "LimitOrder" -> {"orderType", "action", "totalQuantity", "lmtPrice"}
      [] cls = "MarketOrder" -> {"orderType", "action", "totalQuantity"}
      [] cls = "StopOrder" -> {"orderType", "action", "totalQuantity", "auxPrice"}
      [] cls = "StopLimitOrder" ->
            {"orderType", "action", "totalQuantity", "lmtPrice", "auxPrice"}
      [] OTHER -> {}

\* the fields of o that the call did not set and nothing assigned since
Untouched(o) ==
    DOMAIN OrderDefaults \ (MappedFields(o.cls) \cup DOMAIN o.kwargs \cup o.touched)

\* C7 as stated: the typed constructors map their arguments as documented and
\* every other field that is not overridden keeps its declared default.
C7_EveryOtherFieldKeepsDefault ==
    \A i \in 1..Len(orders) :
      LET o == orders[i]
      IN /\ MappedCorrectly(o)
         /\ \A k \in Untouched(o) : o.f[k] = OrderDefaults[k]

\* C7 as amended: the typed constructors map their arguments as documented;
\* every other field that is not overridden keeps its declared default (so
\* lmtPrice and auxPrice keep the unset-double sentinel), except conditions
\* and softDollarTier, whose declared default is None and which come out as
\* an empty list and a default-valued SoftDollarTier.
C7_OtherFieldsKeepDefault ==
    \A i \in 1..Len(orders) :
      LET o == orders[i]
      IN /\ MappedCorrectly(o)
         /\ \A k \in Untouched(o) \ {"conditions", "softDollarTier"} :
              o.f[k] = OrderDefaults[k]
         /\ "lmtPrice" \in Untouched(o) => o.f.lmtPrice = UNSET_DOUBLE
         /\ "auxPrice" \in Untouched(o) => o.f.auxPrice = UNSET_DOUBLE
         /\ "conditions" \in Untouched(o) =>
              /\ o.f.conditions /= OrderDefaults.conditions
              /\ lists[o.f.conditions.id] = <<>>
         /\ "softDollarTier" \in Untouched(o) =>
              /\ o.f.softDollarTier /= OrderDefaults.softDollarTier
              /\ tiers[o.f.softDollarTier.id] =
                   [name |-> "", val |-> "", displayName |-> ""]

C7_Witness ==
    /\ Len(orders) = 2
    /\ orders[1].cls = "StopLimitOrder" /\ orders[1].kwargs = NoKeywords
    /\ orders[1].f.orderType = "STP LMT"
    /\ orders[1].f.lmtPrice = 9 /\ orders[1].f.auxPrice = 8
    /\ orders[1].f.tif = ""
    /\ orders[2].cls = "MarketOrder" /\ orders[2].kwargs = NoKeywords
    /\ orders[2].f.lmtPrice = UNSET_DOUBLE /\ orders[2].f.auxPrice = UNSET_DOUBLE
    /\ orders[2].f.action = "SELL"

\* the fields a typed constructor's orderType implies and the constructor
\* itself sets
ImpliedFields(cls) ==
    CASE cls = "LimitOrder" -> {"orderType", "lmtPrice"}
      [] cls = "MarketOrder" -> {"orderType"}
      [] cls = "StopOrder" -> {"orderType", "auxPrice"}
      [] cls = "StopLimitOrder" -> {"orderType", "lmtPrice", "auxPrice"}
      [] OTHER -> {}

LastCallOverrides(names) ==
    DOMAIN outcome.kwargs \cap names /= {}

\* C8 as stated: a call of a typed constructor that overrides a field the
\* constructor sets completes without error and the order carries the
\* overriding value.
C8_ImpliedFieldOverrideAccepted ==
    LastCallOverrides(ImpliedFields(outcome.cls)) =>
        /\ outcome.raised = "none"
        /\ Len(orders) = outcome.before + 1
        /\ \A k \in DOMAIN outcome.kwargs :
              orders[Len(orders)].f[k] = outcome.kwargs[k]

\* C8 as amended: a call of a typed constructor that overrides orderType, or
\* the lmtPrice/auxPrice field the constructor sets, is rejected: it fails
\* with a TypeError, no order is constructed and none carries the overriding
\* value.
C8_ImpliedFieldOverrideRaises ==
    LastCallOverrides(ImpliedFields(outcome.cls)) =>
        /\ outcome.raised = "TypeError"
        /\ Len(orders) = outcome.before

C8_Witness ==
    /\ outcome /= NoCall
    /\ outcome.cls = "StopOrder"
    /\ "auxPrice" \in DOMAIN outcome.kwargs
    /\ outcome.raised = "TypeError"
    /\ Len(orders) = 1
    /\ outcome.before = 1

\* C9: an Order equals itself, two distinct Orders are unequal even when
\* all their field values are equal, and an Order's hash is the one it had
\* when constructed, whatever was assigned to its fields since.
C9_IdentityEqualityAndHash ==
    \A i, j \in 1..Len(orders) :
      /\ OrderEq(i, i)
      /\ i /= j => ~OrderEq(i, j)
      /\ OrderEq(i, j) => OrderHash(i) = OrderHash(j)
      /\ OrderHash(i) = orders[i].hash0

C9_Witness ==
    /\ Len(orders) = 2
    /\ FieldValues(1) = FieldValues(2)
    /\ orders[1].cls = "LimitOrder" /\ orders[2].cls = "LimitOrder"
    /\ orders[1].touched = {"permId"} /\ orders[2].touched = {"permId"}
    /\ ~OrderEq(1, 2)
    /\ OrderHash(1) = orders[1].hash0

====
